---------------------------- MODULE Spec2Model ----------------------------
(***************************************************************************)
(* playwright-auth: createAuth captures every IndexedDB database of a page *)
(* into a snapshot (AuthData.idbs); loadAuth replays the snapshot into the *)
(* IndexedDB of another page under a retry loop of maxRetries attempts.    *)
(*                                                                         *)
(* src is the IndexedDB of the page createAuth runs on, dst the IndexedDB  *)
(* of the page loadAuth runs on.  A database is [version, stores]; a       *)
(* database that does not exist has version 0 and no store.  A store is    *)
(* [keyPath, autoIncrement, gen, recs]: its key policy, its key generator  *)
(* and its records (a function from keys to values).                       *)
(***************************************************************************)
EXTENDS Integers, Sequences, FiniteSets, TLC

\* Bounds of the model.
MaxRecords == 2
MaxVersion == 2

\* const maxRetries = 3
maxRetries == 3

(***************************************************************************)
(* JavaScript values.  A value is [t, a, id, q]: the base value (its type  *)
(* t, its content a, and for an object the value of its "id" property)     *)
(* and the number q of times JSON.stringify was applied to it.  With q > 0 *)
(* the value is a string holding JSON text; with q = 0 and t = "string" it *)
(* is a plain string that is not JSON text.                                *)
(***************************************************************************)
NoKey == [t |-> "none", n |-> 0, a |-> ""]
NumKey(n) == [t |-> "number", n |-> n, a |-> ""]
StrKey(a) == [t |-> "string", n |-> 0, a |-> a]

Undefined == [t |-> "undefined", a |-> "", id |-> NoKey, q |-> 0]
PlainStr(a) == [t |-> "string", a |-> a, id |-> NoKey, q |-> 0]
Obj(id) == [t |-> "object", a |-> "x", id |-> id, q |-> 0]
Num(a) == [t |-> "number", a |-> a, id |-> NoKey, q |-> 0]

\* typeof value === "string"
IsString(v) == v.q > 0 \/ v.t = "string"
IsObject(v) == v.q = 0 /\ v.t = "object"

\* JSON.stringify(value): the JSON text of the value; undefined for undefined.
JSONstringify(v) ==
    IF v.q = 0 /\ v.t = "undefined" THEN Undefined ELSE [v EXCEPT !.q = @ + 1]

\* JSON.parse(text) throws a SyntaxError on a string that is not JSON text.
JSONparseThrows(s) == s.q = 0
JSONparse(s) == [s EXCEPT !.q = @ - 1]

\* String(key): the property name a key becomes in objectStorageRes[keys[i]].
NumStr == <<"1", "2", "3", "4", "5", "6", "7", "8">>
PropertyName(k) == IF k.t = "number" THEN NumStr[k.n] ELSE k.a

\* The keys and values the source stores are drawn from.  KeyOrder is the
\* order of IndexedDB keys (numbers before strings), the order of getAllKeys.
KeyOrder == <<NumKey(1), StrKey("1"), StrKey("a")>>
SrcKeys == {KeyOrder[i] : i \in 1..Len(KeyOrder)}
\* Object.keys: integer-like property names first, then the other names.
PropOrder == <<"1", "a">>
SrcValues == {PlainStr("abc"), Obj(NoKey), Undefined, JSONstringify(Num("1"))}
JSONRepresentable(v) == v # Undefined

EmptyRecs == [k \in {} |-> Undefined]
NoStores == [s \in {} |-> 0]
NoDatabase == [version |-> 0, stores |-> NoStores]


(***************************************************************************)
(* IndexedDB as the two functions use it.                                  *)
(***************************************************************************)
OutOfLine(recs) == [keyPath |-> "none", autoIncrement |-> FALSE, gen |-> 1, recs |-> recs]
InLine(recs) == [keyPath |-> "id", autoIncrement |-> FALSE, gen |-> 1, recs |-> recs]

\* db.createObjectStore(storeName, {keyPath: "id", autoIncrement: true})
createObjectStore == [keyPath |-> "id", autoIncrement |-> TRUE, gen |-> 1, recs |-> EmptyRecs]

\* The records with the record (key, value) written.
Store1(recs, key, value) ==
    [k \in (DOMAIN recs) \cup {key} |-> IF k = key THEN value ELSE recs[k]]

\* objectStore.put(value) and objectStore.put(value, key): key is NoKey when no
\* key is passed.  The result is the store with the record staged, or threw
\* when put raises a DataError (a store with a key path given a value that is
\* no object, or an object without the key and no key generator to make one).
put(store, value, key) ==
    IF store.keyPath # "none"
    THEN IF key # NoKey \/ ~IsObject(value)
         THEN [threw |-> TRUE, store |-> store]
         ELSE IF value.id # NoKey
         THEN [threw |-> FALSE,
               store |-> [store EXCEPT
                  !.recs = Store1(@, value.id, value),
                  !.gen = IF store.autoIncrement /\ value.id.t = "number" /\ value.id.n >= @
                          THEN value.id.n + 1 ELSE @]]
         ELSE IF store.autoIncrement
         THEN [threw |-> FALSE,
               store |-> [store EXCEPT
                  !.recs = Store1(@, NumKey(store.gen), [value EXCEPT !.id = NumKey(store.gen)]),
                  !.gen = @ + 1]]
         ELSE [threw |-> TRUE, store |-> store]
    ELSE IF key = NoKey
         THEN [threw |-> TRUE, store |-> store]
         ELSE [threw |-> FALSE, store |-> [store EXCEPT !.recs = Store1(@, key, value)]]

\* indexedDB.open(name, version): the version the request asks for; version 0
\* stands for an open without a version, which asks for the current version,
\* or for 1 when the database does not exist.
RequestedVersion(db, version) ==
    IF version = 0 THEN (IF db.version = 0 THEN 1 ELSE db.version) ELSE version

\* The open fails with a VersionError when it asks for less than the current
\* version, and runs a version-upgrade transaction when it asks for more.
VersionError(db, version) == RequestedVersion(db, version) < db.version
UpgradeNeeded(db, version) == RequestedVersion(db, version) > db.version

\* Mutant: the upgrade makes the database anew, with the created stores only.
OpenedAnew(db, version, created) ==
    IF UpgradeNeeded(db, version)
    THEN [version |-> RequestedVersion(db, version),
          stores |-> [s \in created |-> createObjectStore]]
    ELSE db

\* The database after a successful open whose onupgradeneeded handler creates
\* the stores `created` (none in createAuth and in loadAuth's other opens).
Opened(db, version, created) ==
    IF UpgradeNeeded(db, version)
    THEN [version |-> RequestedVersion(db, version),
          stores |-> [s \in (DOMAIN db.stores) \cup created |->
                         IF s \in DOMAIN db.stores THEN db.stores[s] ELSE createObjectStore]]
    ELSE db

(***************************************************************************)
(* createAuth                                                              *)
(***************************************************************************)
DbNames == <<"db1", "db2">>

\* Object.keys(obj): a JavaScript object is a function from property names.
ObjectKeys(obj) == SelectSeq(PropOrder, LAMBDA p : p \in DOMAIN obj)
StoreOrder == <<"s1", "s2", "t1">>
\* db.objectStoreNames, and Object.keys of a dump: the store names in order.
StoreKeys(obj) == SelectSeq(StoreOrder, LAMBDA s : s \in DOMAIN obj)

\* objectStore.getAllKeys() and objectStore.getAll(), both in key order.
getAllKeys(store) == SelectSeq(KeyOrder, LAMBDA k : k \in DOMAIN store.recs)
getAll(store) == [i \in 1..Len(getAllKeys(store)) |-> store.recs[getAllKeys(store)[i]]]

\* for (i...) objectStorageRes[keys[i]] = JSON.stringify(values[i])
RECURSIVE ZipStore(_, _, _, _)
ZipStore(objectStorageRes, keys, values, i) ==
    IF i > Len(keys) THEN objectStorageRes
    ELSE ZipStore(Store1(objectStorageRes, PropertyName(keys[i]), JSONstringify(values[i])),
                  keys, values, i + 1)

EmptyObject == [p \in {} |-> Undefined]
DumpStore(store) == ZipStore(EmptyObject, getAllKeys(store), getAll(store), 1)

\* JSON.stringify(dbRes), as JSON.parse reads it back in loadAuth: a property
\* whose value is undefined is left out of the text.
StringifyDump(dbRes) ==
    [s \in DOMAIN dbRes |->
        [p \in {x \in DOMAIN dbRes[s] : dbRes[s][x] # Undefined} |-> dbRes[s][p]]]


VARIABLES
    src, dst,           \* the IndexedDB of the captured page and of the restored page
    pc,                 \* the statement createAuth or loadAuth is at
    dbs, dbIndex, objectStorageIndex, dbRes, idbs,      \* createAuth
    retryCount, success, dbI, stI, needsUpgrade, getVersion,
    openDatabases,      \* loadAuth: the connections of this attempt, [name, open]
    tx,                 \* loadAuth: the read-write transactions not yet finished
    exc,                \* the exception on its way to the catch block ("" for none)
    error,              \* the error loadAuth threw ("" for none)
    src0, dst0,         \* history: src and dst as they were at the start
    runs,               \* history: the calls of loadAuth so far
    attempts,           \* history: the attempts (page.goto calls) of this call
    allNavFailed,       \* history: every attempt of this call failed in page.goto
    reloads,            \* history: the attempts of this call whose page.reload completed
    status,             \* history: per store, how its transaction ended in this attempt
    faulted,            \* history: a navigation, a request or a transaction has failed
    dst1,               \* history: dst as the first call of loadAuth left it
    captureErr,         \* history: a request of createAuth has failed
    hit,                \* history: the first error of this attempt outside the store loop
    foreign,            \* the databases the page's own scripts hold a connection to
    tempDbs             \* loadAuth: the connections of the probes and version reads

vars == <<src, dst, pc, dbs, dbIndex, objectStorageIndex, dbRes, idbs, retryCount,
          success, dbI, stI, needsUpgrade, getVersion, openDatabases, tx, exc, error,
          src0, dst0, runs, attempts, allNavFailed, reloads, status, faulted, dst1,
          captureErr, hit, foreign, tempDbs>>

captureVars == <<dbs, dbIndex, objectStorageIndex, dbRes, idbs, captureErr>>
loadVars == <<retryCount, success, dbI, stI, needsUpgrade, getVersion, openDatabases,
              tx, exc, error, foreign, tempDbs>>
histVars == <<src0, dst0, runs, attempts, allNavFailed, reloads, status, faulted, dst1,
              hit>>

(***************************************************************************)
(* The initial states: a source whose store s1 holds up to MaxRecords      *)
(* records, with or without a key path, and a destination where db1 does   *)
(* not exist yet, or exists with or without s1.                            *)
(***************************************************************************)
KeySets == {D \in SUBSET SrcKeys : Cardinality(D) <= MaxRecords}
SrcStores ==
    {OutOfLine(recs) : recs \in UNION {[D -> SrcValues] : D \in KeySets}}
    \cup {InLine([k \in D |-> Obj(k)]) : D \in KeySets}

OldRecs == [k \in {StrKey("a"), StrKey("z")} |-> PlainStr("old")]
DstStores == {OutOfLine(EmptyRecs), OutOfLine(OldRecs), createObjectStore}

SrcDb2 == [version |-> 1,
           stores |-> [t1 |-> OutOfLine([k \in {StrKey("a")} |-> PlainStr("abc")])]]

SrcInit ==
    {[db1 |-> [version |-> 1,
               stores |-> [s1 |-> s, s2 |-> OutOfLine([k \in {StrKey("a")} |-> Obj(NoKey)])]],
      db2 |-> d2]
     : s \in SrcStores, d2 \in {SrcDb2, NoDatabase}}

DstDb1 ==
    {NoDatabase}
    \cup {[version |-> v, stores |-> [s2 |-> OutOfLine(EmptyRecs)]] : v \in 1..MaxVersion}
    \cup {[version |-> v, stores |-> [s1 |-> s, s2 |-> OutOfLine(EmptyRecs)]] :
            v \in 1..MaxVersion, s \in DstStores}

DstInit ==
    {[db1 |-> d, db2 |-> [version |-> 1, stores |-> [t1 |-> OutOfLine(EmptyRecs)]]]
     : d \in DstDb1}

StoreIds == {<<"db1", "s1">>, <<"db1", "s2">>, <<"db2", "t1">>}
NoStatus == [x \in StoreIds |-> "none"]

Init ==
    /\ src \in SrcInit
    /\ dst \in DstInit
    /\ src0 = src
    /\ dst0 = dst
    /\ dst1 = dst
    /\ pc = "databases"
    /\ dbs = <<>>
    /\ dbIndex = 0
    /\ objectStorageIndex = 0
    /\ dbRes = NoStores
    /\ idbs = NoStores
    /\ retryCount = 0
    /\ success = FALSE
    /\ dbI = 0
    /\ stI = 0
    /\ needsUpgrade = FALSE
    /\ getVersion = 0
    /\ openDatabases = <<>>
    /\ tx = {}
    /\ exc = ""
    /\ error = ""
    /\ runs = 0
    /\ attempts = 0
    /\ allNavFailed = TRUE
    /\ reloads = 0
    /\ status = NoStatus
    /\ faulted = FALSE
    /\ captureErr = FALSE
    /\ hit = ""
    /\ foreign = {}
    /\ tempDbs = <<>>

(***************************************************************************)
(* createAuth, one action per await.                                       *)
(***************************************************************************)
\* const dbs = await indexedDB.databases()
Databases ==
    /\ pc = "databases"
    /\ dbs' = SelectSeq([i \in 1..Len(DbNames) |->
                            [name |-> DbNames[i], version |-> src[DbNames[i]].version]],
                        LAMBDA d : d.version > 0)
    /\ dbIndex' = 1
    /\ pc' = "openDb"
    /\ UNCHANGED <<src, dst, objectStorageIndex, dbRes, idbs, captureErr, loadVars, histVars>>

\* Mutant: createAuth opens one version higher, as loadAuth's upgrade does.
CaptureVersionHigher(dbInfo) == dbInfo.version + 1

\* The version createAuth opens a database at: indexedDB.open(name, dbInfo.version)
CaptureVersion(dbInfo) == dbInfo.version

\* Mutant: a failed request makes createAuth skip the database.
RejectSkips ==
    /\ pc' = "openDb"
    /\ dbIndex' = dbIndex + 1
    /\ captureErr' = TRUE
    /\ UNCHANGED <<objectStorageIndex, dbRes, idbs>>

\* A request of createAuth fails: its promise rejects, page.evaluate rejects
\* and createAuth throws, with no authData returned.
Reject ==
    /\ pc' = "captureFailed"
    /\ captureErr' = TRUE
    /\ UNCHANGED <<dbIndex, objectStorageIndex, dbRes, idbs>>

\* The loop over dbs is over: storageState() and the return of authData.
\* Otherwise the open of dbs[dbIndex], which resolves on success and on
\* upgradeneeded and rejects on error.
OpenDb ==
    /\ pc = "openDb"
    /\ UNCHANGED <<dst, dbs, loadVars, histVars>>
    /\ IF dbIndex > Len(dbs)
       THEN /\ pc' = "captured"
            /\ UNCHANGED <<src, dbIndex, objectStorageIndex, dbRes, idbs, captureErr>>
       ELSE LET dbInfo == dbs[dbIndex] IN
            \/ /\ ~VersionError(src[dbInfo.name], CaptureVersion(dbInfo))
               /\ src' = [src EXCEPT ![dbInfo.name] = Opened(@, CaptureVersion(dbInfo), {})]
               /\ dbRes' = NoStores
               /\ objectStorageIndex' = 1
               /\ pc' = "readStore"
               /\ UNCHANGED <<dbIndex, idbs, captureErr>>
            \/ /\ Reject
               /\ UNCHANGED src

\* One store of the open database: the readonly transaction, getAllKeys,
\* getAll and the zip into objectStorageRes; a request error rejects.  After
\* the last store, idbs[db.name] = JSON.stringify(dbRes).
ReadStore ==
    /\ pc = "readStore"
    /\ UNCHANGED <<src, dst, dbs, loadVars, histVars>>
    /\ LET name == dbs[dbIndex].name
           objectStoreNames == StoreKeys(src[name].stores)
       IN IF objectStorageIndex > Len(objectStoreNames)
          THEN /\ idbs' = [d \in (DOMAIN idbs) \cup {name} |->
                              IF d = name THEN StringifyDump(dbRes) ELSE idbs[d]]
               /\ dbIndex' = dbIndex + 1
               /\ pc' = "openDb"
               /\ UNCHANGED <<objectStorageIndex, dbRes, captureErr>>
          ELSE LET objectStorageName == objectStoreNames[objectStorageIndex]
                   store == src[name].stores[objectStorageName]
               IN \/ /\ dbRes' = [s \in (DOMAIN dbRes) \cup {objectStorageName} |->
                                     IF s = objectStorageName THEN DumpStore(store) ELSE dbRes[s]]
                     /\ objectStorageIndex' = objectStorageIndex + 1
                     /\ UNCHANGED <<pc, dbIndex, idbs, captureErr>>
                  \/ Reject

(***************************************************************************)
(* loadAuth, one action per await.                                         *)
(***************************************************************************)
\* for (const dbName in auth.idbs)
IdbNames == SelectSeq(DbNames, LAMBDA d : d \in DOMAIN idbs)
dbName == IdbNames[dbI]
\* const dbData = JSON.parse(auth.idbs[dbName]); Object.keys(dbData)
dbData == idbs[dbName]
objectStoreNames == StoreKeys(dbData)
storeName == objectStoreNames[stI]

\* dst with the transactions C committed.
Committed(C) ==
    [d \in DOMAIN dst |->
        [dst[d] EXCEPT !.stores =
            [s \in DOMAIN @ |->
                IF \E t \in C : t.db = d /\ t.store = s
                THEN (CHOOSE t \in C : t.db = d /\ t.store = s).staged
                ELSE @[s]]]]

\* The transactions still running when the page navigates end there, each
\* committed or aborted.
Navigated(failed) ==
    \E C \in SUBSET tx :
        /\ dst' = Committed(C)
        /\ tx' = {}
        /\ faulted' = (faulted \/ failed \/ C # tx)
        /\ foreign' = {}
        /\ tempDbs' = <<>>

\* The error e is the first of this attempt, unless there was one before.
Hit(e) == hit' = IF hit = "" THEN e ELSE hit

\* The entry of loadAuth: const maxRetries = 3; let retryCount = 0; let success = false
Enter ==
    /\ retryCount' = 0
    /\ success' = FALSE
    /\ runs' = runs + 1
    /\ attempts' = 0
    /\ allNavFailed' = TRUE
    /\ reloads' = 0
    /\ error' = ""
    /\ pc' = "while"
    /\ UNCHANGED <<src, dst, captureVars, dbI, stI, needsUpgrade, getVersion,
                   openDatabases, tx, exc, src0, dst0, status, faulted, dst1>>
    /\ hit' = ""
    /\ UNCHANGED <<foreign, tempDbs>>

\* loadAuth is called with the snapshot createAuth returned.
LoadAuth ==
    /\ pc = "captured"
    /\ Enter

\* loadAuth is called again with the same snapshot, on the destination a
\* first call left without any failure.
LoadAuthAgain ==
    /\ pc = "returned"
    /\ runs = 1
    /\ ~faulted
    /\ Enter

\* Mutants of the loop test: one attempt too many, and success not tested.
LoopConditionOffByOne == retryCount <= maxRetries /\ ~success
LoopConditionNoSuccess == retryCount < maxRetries

\* while (retryCount < maxRetries && !success)
LoopCondition == retryCount < maxRetries /\ ~success

\* The error thrown after the loop when success is not set.
ExhaustedError == "Failed to load IndexedDB data after multiple retries"

\* The error loadAuth ends with when the loop is left without success.
Thrown == ExhaustedError

\* The loop test, and after the loop: if (!success) throw new Error(...)
While ==
    /\ pc = "while"
    /\ IF LoopCondition
       THEN /\ pc' = "goto"
            /\ attempts' = attempts + 1
            /\ status' = NoStatus
            /\ UNCHANGED <<error, dst1>>
       ELSE /\ pc' = IF ~success THEN "thrown" ELSE "returned"
            /\ error' = IF ~success THEN Thrown ELSE error
            /\ dst1' = IF runs = 1 THEN dst ELSE dst1
            /\ UNCHANGED <<attempts, status>>
    /\ exc' = ""
    /\ UNCHANGED <<src, dst, captureVars, retryCount, success, dbI, stI, needsUpgrade,
                   getVersion, openDatabases, tx, src0, dst0, runs, allNavFailed,
                   reloads, faulted>>
    /\ hit' = IF LoopCondition THEN "" ELSE hit
    /\ UNCHANGED <<foreign, tempDbs>>

\* Mutant: the in-page loop ends after the stores of one database.
NextStoreOneDatabase(i, j) ==
    IF j + 1 <= Len(StoreKeys(idbs[IdbNames[i]]))
    THEN [pc |-> "transaction", dbI |-> i, stI |-> j + 1]
    ELSE [pc |-> "finally", dbI |-> i, stI |-> j]

\* Where the in-page loop goes after store stI of database dbI: the next
\* store of the database, the next database, or the finally block.
NextStore(i, j) ==
    IF j + 1 <= Len(StoreKeys(idbs[IdbNames[i]]))
    THEN [pc |-> "transaction", dbI |-> i, stI |-> j + 1]
    ELSE IF i + 1 <= Len(IdbNames)
    THEN [pc |-> "probe", dbI |-> i + 1, stI |-> 0]
    ELSE [pc |-> "finally", dbI |-> i, stI |-> j]

Goes(n) == pc' = n.pc /\ dbI' = n.dbI /\ stI' = n.stI

\* await page.goto(authData.idbsUrl, ...), then the start of page.evaluate
Goto ==
    /\ pc = "goto"
    /\ \/ /\ Navigated(FALSE)
          /\ pc' = IF Len(IdbNames) = 0 THEN "finally" ELSE "probe"
          /\ dbI' = 1
          /\ stI' = 0
          /\ openDatabases' = <<>>
          /\ allNavFailed' = FALSE
          /\ exc' = ""
          /\ UNCHANGED hit
       \/ /\ Navigated(TRUE)
          /\ pc' = "catch"
          /\ exc' = "navigation"
          /\ Hit("navigation")
          /\ UNCHANGED <<dbI, stI, openDatabases, allNavFailed>>
    /\ UNCHANGED <<src, captureVars, retryCount, success, needsUpgrade, getVersion, error,
                   src0, dst0, runs, attempts, reloads, status, dst1>>

\* Mutant: close leaves the connection open.
closeNot(c) == c

\* db.close()
close(c) == [c EXCEPT !.open = FALSE]

\* event.target.result of an open of dbName that succeeded.
tempDb == [name |-> dbName, open |-> TRUE, vc |-> FALSE]

\* The stores of the dump that the database lacks.
missingObjectStores(database) == {s \in DOMAIN dbData : s \notin DOMAIN database.stores}

\* The first open, without a version: onsuccess compares the store names and
\* closes the connection; onerror resolves false.
Probe ==
    /\ pc = "probe"
    /\ \/ /\ dst' = [dst EXCEPT ![dbName] = Opened(@, 0, {})]
          /\ needsUpgrade' = (missingObjectStores(dst'[dbName]) # {})
          /\ tempDbs' = Append(tempDbs, close(tempDb))
          /\ UNCHANGED <<faulted, hit>>
       \/ /\ needsUpgrade' = FALSE
          /\ faulted' = TRUE
          /\ Hit("probe")
          /\ UNCHANGED <<dst, tempDbs>>
    /\ pc' = IF needsUpgrade' THEN "getVersion" ELSE "open"
    /\ UNCHANGED <<src, captureVars, retryCount, success, dbI, stI, getVersion,
                   openDatabases, tx, exc, error, src0, dst0, runs, attempts,
                   allNavFailed, reloads, status, dst1>>
    /\ UNCHANGED foreign

\* The second open, for the version: onerror and onblocked resolve 1.
GetVersion ==
    /\ pc = "getVersion"
    /\ \/ /\ dst' = [dst EXCEPT ![dbName] = Opened(@, 0, {})]
          /\ getVersion' = dst'[dbName].version
          /\ tempDbs' = Append(tempDbs, close(tempDb))
          /\ UNCHANGED <<faulted, hit>>
       \/ /\ getVersion' = 1
          /\ faulted' = TRUE
          /\ Hit("version")
          /\ UNCHANGED <<dst, tempDbs>>
    /\ pc' = "upgradeOpen"
    /\ UNCHANGED <<src, captureVars, retryCount, success, dbI, stI, needsUpgrade,
                   openDatabases, tx, exc, error, src0, dst0, runs, attempts,
                   allNavFailed, reloads, status, dst1>>
    /\ UNCHANGED foreign

\* Mutant: the upgrade asks for two versions more.
UpgradeVersionTwo == getVersion + 2

\* The version the upgrade asks for: indexedDB.open(dbName, getVersion + 1)
UpgradeVersion == getVersion + 1

\* Mutant: the connection is pushed to the registry twice.
ConnectedTwice ==
    /\ openDatabases' = Append(Append(openDatabases,
                                       [name |-> dbName, open |-> TRUE, vc |-> FALSE]),
                                [name |-> dbName, open |-> TRUE, vc |-> FALSE])
    /\ IF Len(objectStoreNames) = 0
       THEN Goes(NextStore(dbI, 0))
       ELSE pc' = "transaction" /\ stI' = 1 /\ UNCHANGED dbI
    /\ UNCHANGED <<exc, faulted, hit>>

\* The write connection is open: openDatabases.push(database); resolve(database)
Connected ==
    /\ openDatabases' = Append(openDatabases, [name |-> dbName, open |-> TRUE, vc |-> FALSE])
    /\ IF Len(objectStoreNames) = 0
       THEN Goes(NextStore(dbI, 0))
       ELSE pc' = "transaction" /\ stI' = 1 /\ UNCHANGED dbI
    /\ UNCHANGED <<exc, faulted, hit>>

\* The open rejects: the exception leaves the loop through the finally block.
Rejected(e) ==
    /\ exc' = e
    /\ pc' = "finally"
    /\ faulted' = TRUE
    /\ Hit(e)
    /\ UNCHANGED <<dst, dbI, stI, openDatabases>>

\* The open at getVersion + 1, whose onupgradeneeded creates the missing
\* stores; onerror rejects.  The version change waits until no other
\* connection to the database is open.
UpgradeOpen ==
    /\ pc \in {"upgradeOpen", "upgradeBlocked"}
    /\ dbName \notin foreign
    /\ \/ /\ ~VersionError(dst[dbName], UpgradeVersion)
          /\ dst' = [dst EXCEPT ![dbName] =
                        Opened(@, UpgradeVersion, missingObjectStores(dst[dbName]))]
          /\ Connected
       \/ Rejected("upgrade")
    /\ UNCHANGED <<src, captureVars, retryCount, success, needsUpgrade, getVersion, tx,
                   error, src0, dst0, runs, attempts, allNavFailed, reloads, status, dst1>>
    /\ UNCHANGED <<foreign, tempDbs>>

\* The open without a version when no store is missing; onerror rejects.
Open ==
    /\ pc = "open"
    /\ \/ /\ dst' = [dst EXCEPT ![dbName] = Opened(@, 0, {})]
          /\ Connected
       \/ Rejected("open")
    /\ UNCHANGED <<src, captureVars, retryCount, success, needsUpgrade, getVersion, tx,
                   error, src0, dst0, runs, attempts, allNavFailed, reloads, status, dst1>>
    /\ UNCHANGED <<foreign, tempDbs>>

\* The value written for a dump value: the value is stringified unless it is
\* a string, then parsed; when JSON.parse throws, the string itself is kept.
Decode(value) ==
    LET parsedValue == IF ~IsString(value) THEN JSONstringify(value) ELSE value
    IN  IF JSONparseThrows(parsedValue) THEN parsedValue ELSE JSONparse(parsedValue)

\* The key passed to put: none for a store with a key path, else the dump key.
PutKey(objectStore, key) ==
    IF objectStore.keyPath # "none" THEN NoKey ELSE StrKey(key)

\* for (const key of Object.keys(dbData[storeName])) ... objectStore.put(...)
\* from key number i on: the store with the puts staged, and whether a put
\* threw (which ends the loop with the earlier puts staged).
RECURSIVE PutAll(_, _, _, _)
PutAll(objectStore, data, keys, i) ==
    IF i > Len(keys) THEN [threw |-> FALSE, store |-> objectStore]
    ELSE LET r == put(objectStore, Decode(data[keys[i]]), PutKey(objectStore, keys[i]))
         IN  IF r.threw THEN [threw |-> TRUE, store |-> objectStore]
             ELSE PutAll(r.store, data, keys, i + 1)

\* let db: the write connection of the database being processed.
db == openDatabases[Len(openDatabases)]

\* Mutant: the error of a store is thrown on, out of page.evaluate.
StoreRethrows(storeError) ==
    /\ exc' = storeError
    /\ pc' = "finally"
    /\ UNCHANGED <<dbI, stI>>

\* What a failed store does to the rest of page.evaluate: the catch block of
\* the store loop logs storeError and the loop goes on with the next store.
StoreFailed(storeError) ==
    /\ Goes(NextStore(dbI, stI))
    /\ UNCHANGED exc

\* db.transaction([storeName], "readwrite") and the puts.  The transaction
\* call throws on a closed connection and on a store the database lacks.
Transaction ==
    /\ pc = "transaction"
    /\ IF ~db.open \/ storeName \notin DOMAIN dst[dbName].stores
       THEN /\ status' = [status EXCEPT ![<<dbName, storeName>>] = "threw"]
            /\ StoreFailed("transaction")
            /\ UNCHANGED tx
       ELSE LET r == PutAll(dst[dbName].stores[storeName], dbData[storeName],
                            ObjectKeys(dbData[storeName]), 1)
                t == [db |-> dbName, store |-> storeName, staged |-> r.store,
                      awaited |-> ~r.threw]
            IN  /\ tx' = tx \cup {t}
                /\ IF r.threw
                   THEN /\ status' = [status EXCEPT ![<<dbName, storeName>>] = "threw"]
                        /\ StoreFailed("put")
                   ELSE /\ pc' = "transactionComplete"
                        /\ UNCHANGED <<dbI, stI, exc, status>>
    /\ UNCHANGED <<src, dst, captureVars, retryCount, success, needsUpgrade, getVersion,
                   openDatabases, error, src0, dst0, runs, attempts, allNavFailed,
                   reloads, faulted, dst1>>
    /\ UNCHANGED <<hit, foreign, tempDbs>>

\* await transactionComplete: oncomplete resolves, onerror and onabort reject
\* into the catch block of the store loop.
TransactionComplete ==
    /\ pc = "transactionComplete"
    /\ \E t \in {x \in tx : x.awaited} :
          /\ tx' = tx \ {t}
          /\ \/ /\ dst' = Committed({t})
                /\ status' = [status EXCEPT ![<<t.db, t.store>>] = "complete"]
                /\ Goes(NextStore(dbI, stI))
                /\ UNCHANGED <<exc, faulted>>
             \/ /\ status' = [status EXCEPT ![<<t.db, t.store>>] = "failed"]
                /\ StoreFailed("aborted")
                /\ faulted' = TRUE
                /\ UNCHANGED dst
    /\ UNCHANGED <<src, captureVars, retryCount, success, needsUpgrade, getVersion,
                   openDatabases, error, src0, dst0, runs, attempts, allNavFailed,
                   reloads, dst1>>
    /\ UNCHANGED <<hit, foreign, tempDbs>>

\* A transaction left behind by a put that threw finishes on its own.
Unawaited ==
    /\ \E t \in {x \in tx : ~x.awaited} :
          /\ tx' = tx \ {t}
          /\ \/ dst' = Committed({t}) /\ UNCHANGED faulted
             \/ faulted' = TRUE /\ UNCHANGED dst
    /\ UNCHANGED <<src, pc, captureVars, retryCount, success, dbI, stI, needsUpgrade,
                   getVersion, openDatabases, exc, error, src0, dst0, runs, attempts,
                   allNavFailed, reloads, status, dst1>>
    /\ UNCHANGED <<hit, foreign, tempDbs>>

\* Mutant: the finally block closes nothing.
closeNone(conns) == conns

\* openDatabases.forEach((db) => db.close())
closeAll(conns) == [i \in 1..Len(conns) |-> close(conns[i])]

\* finally { openDatabases.forEach((db) => db.close()) }, then page.evaluate
\* returns or throws and its variables are gone.
Finally ==
    /\ pc = "finally"
    /\ openDatabases' = closeAll(openDatabases)
    /\ pc' = IF exc = "" THEN "reload" ELSE "catch"
    /\ dbI' = 0
    /\ stI' = 0
    /\ needsUpgrade' = FALSE
    /\ getVersion' = 0
    /\ UNCHANGED <<src, dst, captureVars, retryCount, success, tx, exc, error, histVars>>
    /\ tempDbs' = SelectSeq(tempDbs, LAMBDA c : c.open)
    /\ UNCHANGED foreign

\* await page.reload(); success = true
Reload ==
    /\ pc = "reload"
    /\ \/ /\ Navigated(FALSE)
          /\ success' = TRUE
          /\ reloads' = reloads + 1
          /\ pc' = "while"
          /\ UNCHANGED <<exc, hit>>
       \/ /\ Navigated(TRUE)
          /\ exc' = "reload"
          /\ pc' = "catch"
          /\ Hit("reload")
          /\ UNCHANGED <<success, reloads>>
    /\ UNCHANGED <<src, captureVars, retryCount, dbI, stI, needsUpgrade, getVersion,
                   openDatabases, error, src0, dst0, runs, attempts, allNavFailed,
                   status, dst1>>

\* Mutant: the catch block does not count the failed attempt.
CatchUncounted ==
    /\ pc = "catch"
    /\ pc' = "wait"
    /\ UNCHANGED <<src, dst, captureVars, retryCount, success, dbI, stI, needsUpgrade,
                   getVersion, openDatabases, tx, exc, error, histVars>>
    /\ UNCHANGED <<foreign, tempDbs>>

\* Mutant: the catch block waits after every failure, the last one too.
CatchAlwaysWaits ==
    /\ pc = "catch"
    /\ retryCount' = retryCount + 1
    /\ pc' = "wait"
    /\ UNCHANGED <<src, dst, captureVars, success, dbI, stI, needsUpgrade, getVersion,
                   openDatabases, tx, exc, error, histVars>>
    /\ UNCHANGED <<foreign, tempDbs>>

\* catch (e) { retryCount++; if (retryCount < maxRetries) await setTimeout(500) }
Catch ==
    /\ pc = "catch"
    /\ retryCount' = retryCount + 1
    /\ pc' = IF retryCount' < maxRetries THEN "wait" ELSE "while"
    /\ UNCHANGED <<src, dst, captureVars, success, dbI, stI, needsUpgrade, getVersion,
                   openDatabases, tx, exc, error, histVars>>
    /\ UNCHANGED <<foreign, tempDbs>>

\* The 500 ms between two attempts are over.
Wait ==
    /\ pc = "wait"
    /\ pc' = "while"
    /\ UNCHANGED <<src, dst, captureVars, retryCount, success, dbI, stI, needsUpgrade,
                   getVersion, openDatabases, tx, exc, error, histVars>>
    /\ UNCHANGED <<foreign, tempDbs>>

Next ==
    \/ Databases
    \/ OpenDb
    \/ ReadStore
    \/ LoadAuth
    \/ While
    \/ Goto
    \/ Probe
    \/ GetVersion
    \/ UpgradeOpen
    \/ Open
    \/ Transaction
    \/ TransactionComplete
    \/ Unawaited
    \/ Finally
    \/ Reload
    \/ Catch
    \/ Wait

Spec == Init /\ [][Next]_vars

(***************************************************************************)
(* Other connections.  The scripts of the page itself may hold connections *)
(* to its databases, and other contexts may ask for a newer version of a   *)
(* database loadAuth holds a connection to.                                *)
(***************************************************************************)
\* The statements of page.evaluate between page.goto and the finally block.
InPage == {"probe", "getVersion", "upgradeOpen", "upgradeBlocked", "open",
           "transaction", "transactionComplete"}

\* A script of the page opens a connection to one of its databases.  An open
\* of a database with a version change pending waits behind it.
AppOpens ==
    /\ pc \in InPage
    /\ \E d \in DOMAIN dst :
          /\ dst[d].version > 0
          /\ d \notin foreign
          /\ ~(pc = "upgradeBlocked" /\ d = dbName)
          /\ foreign' = foreign \cup {d}
    /\ UNCHANGED <<src, dst, pc, captureVars, retryCount, success, dbI, stI, needsUpgrade,
                   getVersion, openDatabases, tx, exc, error, histVars>>
    /\ UNCHANGED tempDbs

\* The page closes its connection to a database.
AppCloses ==
    /\ \E d \in foreign : foreign' = foreign \ {d}
    /\ UNCHANGED <<src, dst, pc, captureVars, retryCount, success, dbI, stI, needsUpgrade,
                   getVersion, openDatabases, tx, exc, error, histVars>>
    /\ UNCHANGED tempDbs

\* Mutant: the versionchange handler leaves the connection open.
onversionchangeIgnored(c) == [c EXCEPT !.vc = TRUE]

\* database.onversionchange = () => { database.close() }
onversionchange(c) == [close(c) EXCEPT !.vc = TRUE]

\* Another context asks for a newer version of a database loadAuth holds a
\* connection to: the connection receives versionchange.
VersionChange ==
    /\ pc \in InPage
    /\ \E i \in 1..Len(openDatabases) :
          /\ openDatabases[i].open
          /\ openDatabases' = [openDatabases EXCEPT ![i] = onversionchange(@)]
    /\ UNCHANGED <<src, dst, pc, captureVars, retryCount, success, dbI, stI, needsUpgrade,
                   getVersion, tx, exc, error, foreign, tempDbs, histVars>>

\* openDatabases.forEach((db) => { if (db.name === dbName) db.close() })
closeNamed(conns, name) ==
    [i \in 1..Len(conns) |-> IF conns[i].name = name THEN close(conns[i]) ELSE conns[i]]

\* The upgrade open finds a connection of the page open and the page does
\* not close it on versionchange: request.onblocked runs, which closes the
\* connections of the registry to dbName and neither resolves nor rejects.
UpgradeBlocked ==
    /\ pc = "upgradeOpen"
    /\ dbName \in foreign
    /\ openDatabases' = closeNamed(openDatabases, dbName)
    /\ pc' = "upgradeBlocked"
    /\ UNCHANGED <<src, dst, captureVars, retryCount, success, dbI, stI, needsUpgrade,
                   getVersion, tx, exc, error, foreign, tempDbs, histVars>>

\* A source and a snapshot of two databases with one record each.
InitBlocked ==
    /\ Init
    /\ src["db1"].stores["s1"] = OutOfLine([k \in {StrKey("a")} |-> PlainStr("abc")])
    /\ src["db2"] = SrcDb2

\* loadAuth on a page with other connections.  Every step of createAuth and
\* loadAuth that can be taken is taken in the end; the page and the other
\* contexts are under no obligation.
NextBlocked == Next \/ AppOpens \/ AppCloses \/ VersionChange \/ UpgradeBlocked
SpecBlocked == InitBlocked /\ [][NextBlocked]_vars /\ WF_vars(Next \/ UpgradeBlocked)

\* loadAuth called twice with the same snapshot.
NextTwice == Next \/ LoadAuthAgain
SpecTwice == Init /\ [][NextTwice]_vars


(***************************************************************************)
(* The claims.                                                             *)
(***************************************************************************)
Terminated == pc \in {"returned", "thrown"}

\* The stores the snapshot names.
SnapshotStores == {x \in StoreIds : x[1] \in DOMAIN idbs /\ x[2] \in DOMAIN idbs[x[1]]}

\* The stores of a page's IndexedDB.
StoresOf(idb) == {x \in StoreIds : x[2] \in DOMAIN idb[x[1]].stores}
RecsOf(idb, x) == idb[x[1]].stores[x[2]].recs

\* loadAuth returned and no navigation, request or transaction failed.
Restored == pc = "returned" /\ ~faulted

\* The destination had the store with the key policy of the source, or had
\* no such store.
Compatible(x) ==
    x \in StoresOf(dst0) => dst0[x[1]].stores[x[2]].keyPath = src[x[1]].stores[x[2]].keyPath

\* C1: if page.goto fails in every attempt, loadAuth makes exactly 3 attempts
\* and then throws the retries-exhausted error, not the navigation error.
C1_RetryBound ==
    (Terminated /\ allNavFailed) =>
        /\ attempts = 3
        /\ pc = "thrown"
        /\ error = ExhaustedError
        /\ error # "navigation"

C1_Witness == pc = "thrown" /\ allNavFailed /\ attempts = 3

\* At most one reload completes, within 3 attempts; loadAuth has returned only
\* after a completed reload and has thrown only after 3 attempts without one.
C2_State ==
    /\ reloads <= 1
    /\ attempts <= 3
    /\ pc = "returned" => reloads = 1
    /\ pc = "thrown" => reloads = 0 /\ attempts = 3
    /\ reloads = 1 => pc \in {"while", "returned"} /\ tx = {}

\* After a completed reload the only step is the return: no further attempt,
\* no further write.
C2_Step == reloads = 1 => (attempts' = attempts /\ dst' = dst /\ reloads' = 1 /\ pc' = "returned")

\* C2: loadAuth returns normally exactly when an attempt among the first 3
\* completed its reload; that attempt is the last thing loadAuth does (no
\* further attempt and no further write), and otherwise loadAuth throws.
C2_FirstReloadTerminal == []C2_State /\ [][C2_Step]_vars

C2_Witness == pc = "returned" /\ attempts = 3 /\ reloads = 1

\* The records of store a are those of store b: as many, and for each record
\* of a one of b with the same key (as a property name) and the same value.
SameRecords(a, b) ==
    /\ Cardinality(DOMAIN a) = Cardinality(DOMAIN b)
    /\ \A k \in DOMAIN a :
          \E j \in DOMAIN b : PropertyName(j) = PropertyName(k) /\ b[j] = a[k]

\* C3: round trip: a source store whose values are all JSON-representable is,
\* after createAuth and a loadAuth without failure into a destination where
\* the store is absent, or empty with the key policy of the source, a
\* destination store with the same keys and the same value at every key.
C3_RoundTrip ==
    Restored =>
        \A x \in StoresOf(src) :
            ( /\ \A k \in DOMAIN RecsOf(src, x) : JSONRepresentable(RecsOf(src, x)[k])
              /\ Compatible(x)
              /\ x \in StoresOf(dst0) => RecsOf(dst0, x) = EmptyRecs )
            => /\ x \in StoresOf(dst)
               /\ SameRecords(RecsOf(src, x), RecsOf(dst, x))

\* C4: schema creation: after a loadAuth without failure into a destination
\* database that lacks a store of the dump, the store exists and holds
\* exactly the keys the dump records for it.
C4_SchemaCreation ==
    Restored =>
        \A x \in SnapshotStores :
            x \notin StoresOf(dst0)
            => /\ x \in StoresOf(dst)
               /\ {PropertyName(k) : k \in DOMAIN RecsOf(dst, x)} = DOMAIN idbs[x[1]][x[2]]

\* C5: the dump of a store that had no key path, restored without failure
\* into a destination where the database does not exist, yields the store
\* with every dump key mapped to its decoded value.
C5_EmptyDestination ==
    Restored =>
        \A x \in SnapshotStores :
            (src[x[1]].stores[x[2]].keyPath = "none" /\ dst0[x[1]] = NoDatabase)
            => /\ x \in StoresOf(dst)
               /\ \A p \in DOMAIN idbs[x[1]][x[2]] :
                     /\ StrKey(p) \in DOMAIN RecsOf(dst, x)
                     /\ RecsOf(dst, x)[StrKey(p)] = Decode(idbs[x[1]][x[2]][p])

\* C6: idempotence: a second loadAuth with the same snapshot, on the
\* destination a first loadAuth without failure left, leaves the records of
\* every store as they were (the destination had each store of the snapshot
\* with the key policy of the source, or not at all).
C6_Idempotent ==
    (runs = 2 /\ Restored /\ \A x \in SnapshotStores : Compatible(x)) =>
        /\ StoresOf(dst) = StoresOf(dst1)
        /\ \A x \in StoresOf(dst) : RecsOf(dst, x) = RecsOf(dst1, x)

\* C7: a source value that is a plain string, not JSON text, is after
\* createAuth and a loadAuth without failure a record of the destination
\* store with the identical string (the destination had the store with the
\* key policy of the source, or not at all).
C7_PlainString ==
    Restored =>
        \A x \in StoresOf(src) :
            \A k \in DOMAIN RecsOf(src, x) :
                (Compatible(x) /\ RecsOf(src, x)[k].t = "string" /\ RecsOf(src, x)[k].q = 0)
                => /\ x \in StoresOf(dst)
                   /\ \E j \in DOMAIN RecsOf(dst, x) :
                         /\ PropertyName(j) = PropertyName(k)
                         /\ RecsOf(dst, x)[j] = RecsOf(src, x)[k]

\* C8: a store whose transaction errors or aborts does not stop the attempt:
\* no exception of a store leaves page.evaluate, and when page.evaluate is
\* through, the transaction of every store of the snapshot has been run in
\* this attempt.
C8_StoreIsolation ==
    /\ exc \in {"", "navigation", "upgrade", "open", "reload"}
    /\ pc = "reload" => \A x \in SnapshotStores : status[x] # "none"

C8_Witness ==
    /\ pc = "reload"
    /\ status[<<"db1", "s1">>] = "failed"
    /\ status[<<"db1", "s2">>] = "complete"
    /\ status[<<"db2", "t1">>] = "complete"
    /\ RecsOf(dst, <<"db1", "s2">>) # EmptyRecs
    /\ RecsOf(dst, <<"db2", "t1">>) # EmptyRecs

\* C9 as claimed: no record of the destination is ever removed, and after a
\* loadAuth without failure every key of the dump holds the dump's value.
C9_AsClaimed ==
    /\ \A x \in StoresOf(dst0) :
          x \in StoresOf(dst) /\ DOMAIN RecsOf(dst0, x) \subseteq DOMAIN RecsOf(dst, x)
    /\ Restored =>
          \A x \in SnapshotStores :
            Compatible(x) =>
              /\ x \in StoresOf(dst)
              /\ \A p \in DOMAIN idbs[x[1]][x[2]] :
                    /\ StrKey(p) \in DOMAIN RecsOf(dst, x)
                    /\ RecsOf(dst, x)[StrKey(p)] = Decode(idbs[x[1]][x[2]][p])

\* No step removes a store or a record of the destination.
KeysKept ==
    \A x \in StoresOf(dst) :
        x \in StoresOf(dst') /\ DOMAIN RecsOf(dst, x) \subseteq DOMAIN RecsOf(dst', x)

\* Every step of loadAuth, failed or not, keeps the stores and the records the
\* destination has: the part of the claim about removal holds on its own.
NeverRemoves == [][KeysKept]_vars

\* C10: createAuth leaves the source as it was: the versions, the stores and
\* the records of every database, and no database more than before.
C10_CaptureReadOnly == src = src0

C10_Witness ==
    /\ pc = "captured"
    /\ DOMAIN idbs = {"db1", "db2"}
    /\ DOMAIN idbs["db1"]["s1"] # {}

\* What loadAuth hands to its caller: it returns Promise<void>, so nothing
\* when it returns and the exhaustion error when it throws.
Surfaced == IF pc = "thrown" THEN {error} ELSE {}

\* The errors the catch block of the store loop receives.
StoreErrors == {"transaction", "put", "aborted"}

\* C11: a store whose transaction errored or aborted (in an attempt with no
\* error outside the store loop) does not fail the attempt: its error is no
\* exception of the attempt, and when loadAuth has returned after it the
\* caller holds a diagnostic of it.
C11_ErrorsSurfaced ==
    \A x \in SnapshotStores :
        (status[x] = "failed" /\ hit = "") =>
            /\ exc \notin StoreErrors
            /\ pc = "returned" => Surfaced # {}

\* The attempt has ended with an exception and has cost one unit of the
\* budget: nothing of the attempt runs any more, and once the catch block has
\* run every attempt so far has been counted.
AttemptAborted ==
    /\ pc \in {"finally", "catch", "wait", "while", "thrown"}
    /\ IF pc = "thrown" THEN error = ExhaustedError ELSE exc # ""
    /\ pc \in {"wait", "while", "thrown"} => retryCount = attempts

\* C12: after a navigation failure, an open error (in the probe, in the
\* version read, in the upgrade open or in the write open) or a reload
\* failure, the attempt is over and has consumed exactly one unit of the
\* budget of 3; no such error is swallowed.
C12_NeverSwallowed == hit # "" => AttemptAborted

\* The errors that reject out of page.goto, page.evaluate and page.reload do
\* end the attempt and are counted.
RejectionsCounted == hit \in {"navigation", "upgrade", "open", "reload"} => AttemptAborted

\* C13: when an attempt is over, by the reload or by an exception, every
\* connection loadAuth opened in it is closed: none is open in the catch
\* block, between two attempts, at the start of the next attempt, or when
\* loadAuth has returned or thrown.
C13_ConnectionsClosed ==
    pc \in {"reload", "catch", "wait", "while", "goto", "returned", "thrown"}
    => \A i \in 1..Len(openDatabases) : ~openDatabases[i].open

\* An attempt that had opened a connection was ended by the failed open of
\* the next database.
C13_Witness ==
    /\ pc = "catch"
    /\ exc = "open"
    /\ Len(openDatabases) > 0
    /\ ~openDatabases[1].vc

\* C14: every call of loadAuth ends, returned or thrown, when every request
\* delivers an event: also when an open is blocked by another connection.
C14_Terminates == (runs = 1) ~> Terminated

\* A call of loadAuth that does not end is at a blocked upgrade open.
EndsOrBlocked == (runs = 1) ~> (Terminated \/ pc = "upgradeBlocked")

\* After the blocked event of an open for dbName no connection of the
\* registry to dbName is open.
BlockedClosesNamed ==
    pc = "upgradeBlocked"
    => \A i \in 1..Len(openDatabases) : openDatabases[i].name = dbName => ~openDatabases[i].open

\* C18: when an open request of loadAuth receives a blocked event, loadAuth
\* closes the connections of its registry to that database, and the blocked
\* request then proceeds.
C18_BlockedProceeds ==
    /\ []BlockedClosesNamed
    /\ (pc = "upgradeBlocked") ~> (pc # "upgradeBlocked")

\* A registry connection to the database of an open request of loadAuth is
\* never open while the request is made or waits.
NeverOwnBlocker ==
    pc \in {"probe", "getVersion", "upgradeOpen", "upgradeBlocked", "open"}
    => \A i \in 1..Len(openDatabases) : openDatabases[i].name # dbName

\* C19: a connection of loadAuth that has received versionchange is closed
\* (its handler closed it in the same step), and no open request of loadAuth
\* is made, or waits, while a connection of the registry to the same database
\* is open.
C19_CedesOnVersionChange ==
    /\ \A i \in 1..Len(openDatabases) : openDatabases[i].vc => ~openDatabases[i].open
    /\ pc \in {"probe", "getVersion", "upgradeOpen", "upgradeBlocked", "open"}
       => \A i \in 1..Len(openDatabases) :
             openDatabases[i].name = dbName => ~openDatabases[i].open

\* The write connection of the database being written received versionchange
\* and closed itself before the transaction of a store was started.
C19_Witness ==
    /\ pc = "transaction"
    /\ db.vc
    /\ ~db.open

\* The snapshot has a dump for every database of the source and, in it, an
\* entry for every store of the database.
CapturesStores ==
    pc = "captured" =>
        /\ DOMAIN idbs = {d \in DOMAIN src : src[d].version > 0}
        /\ \A d \in DOMAIN idbs : DOMAIN idbs[d] = DOMAIN src[d].stores

\* The entry of store x has one key for every key of the store, mapped to
\* the serialization of the value at that key.
CapturesRecords(x) ==
    /\ Cardinality(DOMAIN idbs[x[1]][x[2]]) = Cardinality(DOMAIN RecsOf(src, x))
    /\ \A k \in DOMAIN RecsOf(src, x) :
          /\ PropertyName(k) \in DOMAIN idbs[x[1]][x[2]]
          /\ idbs[x[1]][x[2]][PropertyName(k)] = JSONstringify(RecsOf(src, x)[k])

\* C15: the snapshot createAuth returns has one dump per database, one entry
\* per store and, in the entry of a store (here: of JSON-representable
\* values), exactly one key per key of the store, mapped to the serialization
\* of its value.
C15_CapturesAll ==
    /\ CapturesStores
    /\ pc = "captured" =>
          \A x \in StoresOf(src) :
              (\A k \in DOMAIN RecsOf(src, x) : JSONRepresentable(RecsOf(src, x)[k]))
              => CapturesRecords(x)

\* The keys of a store become distinct property names.
DistinctNames(x) ==
    \A j, k \in DOMAIN RecsOf(src, x) : PropertyName(j) = PropertyName(k) => j = k

\* The capture is complete for every store whose keys stay distinct as
\* property names and whose values are JSON-representable.
CapturesDistinct ==
    pc = "captured" =>
        \A x \in StoresOf(src) :
            ( /\ DistinctNames(x)
              /\ \A k \in DOMAIN RecsOf(src, x) : JSONRepresentable(RecsOf(src, x)[k]) )
            => CapturesRecords(x)

\* C16: when the open of a database or the read of a store fails, createAuth
\* fails as a whole: it stays failed, it has returned no snapshot (loadAuth
\* is never given one), and a snapshot that was returned comes from a capture
\* without failure and leaves no database and no store out.
C16_CaptureAllOrNothing ==
    /\ captureErr => (pc = "captureFailed" /\ runs = 0)
    /\ runs > 0 =>
          /\ DOMAIN idbs = {d \in DOMAIN src0 : src0[d].version > 0}
          /\ \A d \in DOMAIN idbs : DOMAIN idbs[d] = DOMAIN src0[d].stores

\* The capture failed after the dump of the first database was made.
C16_Witness ==
    /\ pc = "captureFailed"
    /\ captureErr
    /\ "db1" \in DOMAIN idbs

\* C17: the writes are one after the other: at no time are two read-write
\* transactions of loadAuth unfinished, and the transaction of a store is
\* started only when none is (here: with no failure of a request or a
\* transaction, in a destination that had each store with the key policy of
\* the source or not at all).
C17_Sequential ==
    (~faulted /\ \A x \in SnapshotStores : Compatible(x)) =>
        /\ Cardinality(tx) <= 1
        /\ pc = "transaction" => tx = {}

\* The transactions loadAuth awaits are one after the other.
AwaitedSequential ==
    /\ Cardinality({t \in tx : t.awaited}) <= 1
    /\ pc = "transaction" => {t \in tx : t.awaited} = {}

\* C20: loadAuth opens a database at a higher version if and only if a store
\* of the dump is missing from it (it is on the upgrade path of dbName
\* exactly then); when none is missing it uses only opens without a version,
\* and the version and the stores of the database are after the restore what
\* they were before.
C20_DriftDetection ==
    /\ pc \in {"getVersion", "upgradeOpen", "upgradeBlocked"}
       => missingObjectStores(dst[dbName]) # {}
    /\ pc = "open" => missingObjectStores(dst[dbName]) = {}
    /\ runs > 0 =>
          \A d \in DOMAIN idbs :
              DOMAIN idbs[d] \subseteq DOMAIN dst0[d].stores
              => /\ dst[d].version = dst0[d].version
                 /\ DOMAIN dst[d].stores = DOMAIN dst0[d].stores

\* Without a failed request the drift detection is as claimed.
DriftDetectedUnfaulted == ~faulted => C20_DriftDetection

\* C21: the upgrade open asks for exactly one version more than the database
\* has when the open is processed, so the open is no version conflict and its
\* version-upgrade callback runs: also after a version read that failed.
C21_UpgradeVersion ==
    pc \in {"upgradeOpen", "upgradeBlocked"} =>
        /\ UpgradeVersion = dst[dbName].version + 1
        /\ ~VersionError(dst[dbName], UpgradeVersion)
        /\ UpgradeNeeded(dst[dbName], UpgradeVersion)

\* After a version read that succeeded the upgrade open is as claimed.
UpgradeVersionRead == ~faulted => C21_UpgradeVersion

\* The upgrade open of dbName runs its version-upgrade callback in this step.
Upgrades ==
    /\ pc \in {"upgradeOpen", "upgradeBlocked"}
    /\ dst'[dbName].version > dst[dbName].version

\* C22: the version-upgrade callback creates exactly the stores of the dump
\* that the database lacks, each empty with the key path 'id' and a key
\* generator, and leaves every store the database had as it was (neither
\* gone nor made anew: same key policy, same records), and every other
\* database too.
C22_UpgradeStep ==
    Upgrades =>
        /\ DOMAIN dst'[dbName].stores = (DOMAIN dst[dbName].stores) \cup (DOMAIN idbs[dbName])
        /\ \A s \in DOMAIN dst[dbName].stores : dst'[dbName].stores[s] = dst[dbName].stores[s]
        /\ \A s \in (DOMAIN idbs[dbName]) \ (DOMAIN dst[dbName].stores) :
              /\ dst'[dbName].stores[s].keyPath = "id"
              /\ dst'[dbName].stores[s].autoIncrement
              /\ dst'[dbName].stores[s].recs = EmptyRecs
        /\ \A d \in (DOMAIN dst) \ {dbName} : dst'[d] = dst[d]

C22_UpgradeCreatesMissing == [][C22_UpgradeStep]_vars

\* An upgrade of a later attempt has created s1 next to a store s2 that
\* held records, and the first store is about to be written.
C22_Witness ==
    /\ pc = "transaction"
    /\ dbI = 1
    /\ stI = 1
    /\ tx = {}
    /\ <<"db1", "s1">> \notin StoresOf(dst0)
    /\ <<"db1", "s1">> \in StoresOf(dst)
    /\ dst["db1"].stores["s1"] = createObjectStore
    /\ RecsOf(dst, <<"db1", "s2">>) # EmptyRecs
    /\ dst["db1"].version = dst0["db1"].version + 1

\* The values the puts of transaction t were given, by dump key.
Written(t) == [p \in DOMAIN idbs[t.db][t.store] |-> Decode(idbs[t.db][t.store][p])]

\* C23: of a transaction whose puts were all accepted, every item is stored
\* under the dump's key, passed to put, when the store has no key path, and
\* otherwise, no key being passed, under the key that the value given to put
\* has in its own key field (the destination had the store with the key
\* policy of the source, or not at all).
C23_KeyPolicy ==
    \A t \in tx :
        (t.awaited /\ Compatible(<<t.db, t.store>>)) =>
            \A p \in DOMAIN Written(t) :
                IF t.staged.keyPath = "none"
                THEN /\ PutKey(t.staged, p) = StrKey(p)
                     /\ StrKey(p) \in DOMAIN t.staged.recs
                     /\ t.staged.recs[StrKey(p)] = Written(t)[p]
                ELSE /\ PutKey(t.staged, p) = NoKey
                     /\ Written(t)[p].id # NoKey
                     /\ Written(t)[p].id \in DOMAIN t.staged.recs
                     /\ t.staged.recs[Written(t)[p].id] = Written(t)[p]

\* The dump's key is passed to put exactly for a store without a key path,
\* and a record of a store without a key path is stored under it.
ExplicitKeyIffNoKeyPath ==
    \A t \in tx :
        \A p \in DOMAIN Written(t) :
            /\ (PutKey(t.staged, p) # NoKey) <=> (t.staged.keyPath = "none")
            /\ (t.awaited /\ t.staged.keyPath = "none") =>
                  /\ StrKey(p) \in DOMAIN t.staged.recs
                  /\ t.staged.recs[StrKey(p)] = Written(t)[p]

\* A record of a store with a key path has its key in its key field.
KeyInKeyField ==
    \A t \in tx :
        t.staged.keyPath # "none" =>
            \A k \in DOMAIN t.staged.recs : t.staged.recs[k].id = k

\* The errors that leave page.goto, page.evaluate or page.reload as an
\* exception.
Escaping == {"navigation", "upgrade", "open", "reload"}

\* Every database of the snapshot has been processed in this attempt: each
\* has its write connection in the registry, in the order of the snapshot,
\* and the transaction of each of its stores has been run.
AllProcessed ==
    /\ Len(openDatabases) = Len(IdbNames)
    /\ \A i \in 1..Len(openDatabases) : openDatabases[i].name = IdbNames[i]
    /\ \A x \in SnapshotStores : status[x] # "none"

\* Databases are opened only inside page.evaluate, in an attempt whose
\* page.goto has completed; page.reload is called only with every database
\* processed, every connection of the registry closed and no exception.
C24_State ==
    /\ pc \in InPage \cup {"finally"} => ~allNavFailed /\ hit # "navigation"
    /\ pc = "reload" =>
          /\ AllProcessed
          /\ \A i \in 1..Len(openDatabases) : ~openDatabases[i].open
          /\ exc = ""
          /\ hit \notin Escaping

\* page.evaluate is entered only from a page.goto that completed, and
\* page.reload only from the finally block of a page.evaluate that returned;
\* a page.goto that failed is followed by the catch block.
C24_Step ==
    /\ (pc \notin InPage \cup {"finally"} /\ pc' \in InPage \cup {"finally"})
       => (pc = "goto" /\ exc' = "" /\ hit' = "")
    /\ (pc = "goto" /\ pc' # pc /\ hit' = "navigation") => pc' = "catch"
    /\ (pc # "reload" /\ pc' = "reload") => (pc = "finally" /\ exc = "")
    /\ (pc = "finally" /\ pc' # pc /\ exc # "") => pc' = "catch"

\* C24: in every attempt the navigation completes before any database is
\* opened; the reload is issued only after every database of the snapshot
\* has been processed and every connection of the registry is closed; and no
\* reload is issued in an attempt in which an exception left the navigation
\* or the in-page restore.
C24_StepsOrdered == []C24_State /\ [][C24_Step]_vars

\* The reload of a second attempt, after two databases were processed.
C24_Witness ==
    /\ pc = "reload"
    /\ attempts = 2
    /\ Len(openDatabases) = 2
    /\ status[<<"db2", "t1">>] = "complete"

\* The place of store x in the order in which page.evaluate goes through
\* the snapshot: its database among the databases, itself among the stores.
DbIdx(x) == CHOOSE i \in 1..Len(IdbNames) : IdbNames[i] = x[1]
StIdx(x) == CHOOSE j \in 1..Len(StoreKeys(idbs[x[1]])) : StoreKeys(idbs[x[1]])[j] = x[2]

\* Store x comes before the place (dbI, stI) the in-page loop is at.
Before(x) == DbIdx(x) < dbI \/ (DbIdx(x) = dbI /\ StIdx(x) < stI)

\* Inside page.evaluate the stores whose transaction has been run in this
\* attempt are exactly the stores before the place the loop is at: every
\* attempt goes through the snapshot from its first store, leaving none out.
C25_State ==
    /\ pc \in InPage => \A x \in SnapshotStores : (status[x] # "none") <=> Before(x)
    /\ pc \in InPage \cup {"goto", "finally", "reload"} => retryCount = attempts - 1
    /\ retryCount <= maxRetries

\* An attempt is started only when every attempt before has failed and
\* fewer than 3 have; it starts with page.goto, and page.evaluate starts at
\* the first database with an empty registry and no store written yet.
C25_Step ==
    /\ attempts' # attempts =>
          /\ attempts' = attempts + 1
          /\ retryCount = attempts
          /\ retryCount < 3
          /\ pc' = "goto"
    /\ (pc = "goto" /\ pc' \in InPage) =>
          /\ dbI' = 1
          /\ stI' = 0
          /\ openDatabases' = <<>>
          /\ status' = NoStatus

\* C25: every retry starts again at the navigation and goes through every
\* database and every store of the snapshot from the first one, never from
\* the place of the failure; a retry is started only while fewer than 3
\* attempts have failed.
C25_RetryRestarts == []C25_State /\ [][C25_Step]_vars

\* The second attempt is at the first store of the first database, after a
\* first attempt that had written that database and failed later.
C25_Witness ==
    /\ pc = "transaction"
    /\ attempts = 2
    /\ retryCount = 1
    /\ dbI = 1
    /\ stI = 1
    /\ "db2" \in DOMAIN idbs
    /\ <<"db1", "s2">> \in StoresOf(dst)
    /\ RecsOf(dst, <<"db1", "s2">>) # EmptyRecs
    /\ status = NoStatus

\* The store accepts the put of the item of dump key p.
Acceptable(store, p, v) == ~put(store, v, PutKey(store, p)).threw

\* The store holds the item of dump key p: under the dump's key, or, in a
\* store with a key path, under the key in the value's key field (a key the
\* generator has made, when the value came without one).
ItemWritten(store, p, v) ==
    IF store.keyPath = "none"
    THEN StrKey(p) \in DOMAIN store.recs /\ store.recs[StrKey(p)] = v
    ELSE IF v.id # NoKey
         THEN v.id \in DOMAIN store.recs /\ store.recs[v.id] = v
         ELSE \E k \in DOMAIN store.recs : store.recs[k] = [v EXCEPT !.id = k]

\* C26: when the put of one key of a store has raised an error, the other
\* keys of the dump of that store, those whose put the store accepts, are
\* written in the transaction all the same.
C26_PerItem ==
    \A t \in tx :
        ~t.awaited =>
            \A p \in DOMAIN Written(t) :
                Acceptable(t.staged, p, Written(t)[p])
                => ItemWritten(t.staged, p, Written(t)[p])

\* The items of a transaction whose puts were all accepted are all written.
AcceptedAllWritten ==
    \A t \in tx :
        t.awaited => \A p \in DOMAIN Written(t) : ItemWritten(t.staged, p, Written(t)[p])

\* C27: when loadAuth has returned, every store of the snapshot exists in
\* its database of the destination and its transaction has completed in the
\* attempt that succeeded.
C27_SuccessMeansWritten ==
    pc = "returned" =>
        \A x \in SnapshotStores :
            /\ x \in StoresOf(dst)
            /\ status[x] = "complete"

\* A state SpecBlocked reaches: loadAuth has returned from an attempt without
\* a failed request in which the write connection of a database was closed
\* by versionchange and a store of that database was left unwritten.
ReturnedAfterVersionChange ==
    /\ pc = "returned"
    /\ ~faulted
    /\ \E i \in 1..Len(openDatabases) :
          /\ openDatabases[i].vc
          /\ \E x \in SnapshotStores :
                /\ x[1] = openDatabases[i].name
                /\ x \in StoresOf(dst0)
                /\ Compatible(x)
                /\ status[x] = "threw"

\* C28: in an attempt the registry holds at most one connection per
\* database name, and while the probe, the version read, the upgrade open or
\* the write open of a database is made or waits (when its blocked event can
\* fire) the registry holds no connection of that name, open or closed.
C28_RegistryOnePerName ==
    /\ \A i, j \in 1..Len(openDatabases) :
          openDatabases[i].name = openDatabases[j].name => i = j
    /\ Len(openDatabases) <= Len(IdbNames)
    /\ pc \in {"probe", "getVersion", "upgradeOpen", "upgradeBlocked", "open"}
       => /\ Len(openDatabases) = dbI - 1
          /\ \A i \in 1..Len(openDatabases) : openDatabases[i].name = IdbNames[i]
          /\ \A i \in 1..Len(openDatabases) : openDatabases[i].name # dbName

\* The probe of the second database is made while the registry holds the
\* open connection of the first.
C28_Witness ==
    /\ pc = "probe"
    /\ dbI = 2
    /\ Len(openDatabases) = 1
    /\ openDatabases[1].name = "db1"
    /\ openDatabases[1].open
    /\ "db1" \in foreign

\* The connections loadAuth has open to database d: those of the probes and
\* version reads, and those of the registry.
OwnOpen(d) ==
    Cardinality({i \in 1..Len(tempDbs) : tempDbs[i].name = d /\ tempDbs[i].open})
    + Cardinality({i \in 1..Len(openDatabases) :
                      openDatabases[i].name = d /\ openDatabases[i].open})

\* C29: when loadAuth makes the upgrade open or the write open of a
\* database, or the upgrade open waits, the connections of its probe and of
\* its version read are closed and loadAuth has no open connection to the
\* database (none of its own can block the upgrade); and loadAuth never has
\* more than one connection open to a database.
C29_OneConnection ==
    /\ pc \in {"upgradeOpen", "upgradeBlocked", "open"} =>
          /\ \A i \in 1..Len(tempDbs) : tempDbs[i].name = dbName => ~tempDbs[i].open
          /\ OwnOpen(dbName) = 0
    /\ \A d \in DOMAIN dst : OwnOpen(d) <= 1

\* The upgrade open of a database is blocked after the probe and the version
\* read of that database have each opened and closed a connection.
C29_Witness ==
    /\ pc = "upgradeBlocked"
    /\ Len(tempDbs) = 2
    /\ tempDbs[1].name = dbName
    /\ tempDbs[2].name = dbName
    /\ dbName \in foreign

\* The version database d has once it has been opened: the version it had,
\* or 1 when it did not exist and the first open without a version made it.
Base(d) == RequestedVersion(dst0[d], 0)

\* The version of a database of the snapshot is never below its version
\* before the restore and at most one above what the first open found; when
\* it is one above, no store of the dump is missing; and loadAuth is on the
\* upgrade path of a database only while the version is what the first open
\* found.
C30_State ==
    runs > 0 =>
        \A d \in DOMAIN idbs :
            /\ dst[d].version >= dst0[d].version
            /\ dst[d].version <= Base(d) + 1
            /\ dst[d].version = Base(d) + 1 => DOMAIN idbs[d] \subseteq DOMAIN dst[d].stores
            /\ (pc \in {"getVersion", "upgradeOpen", "upgradeBlocked"} /\ d = dbName)
               => dst[d].version = Base(d)

\* An upgrade that runs is the first of the database in this call and
\* raises the version by one.
C30_Step ==
    Upgrades =>
        /\ dst[dbName].version = Base(dbName)
        /\ dst'[dbName].version = Base(dbName) + 1

\* C30: in one call of loadAuth the upgrade open of a database runs at most
\* once: after the upgrade that created the missing stores, every later
\* attempt finds no store missing and leaves the version as it is.  The
\* version ends at most one above the version the database had, and for a
\* database that did not exist, which the probe creates at version 1, at
\* most at 2, however many attempts run.
C30_UpgradedOnce == []C30_State /\ [][C30_Step]_vars

\* A second attempt finds no store missing in a database that did not exist
\* and that the first attempt created and upgraded.
C30_Witness ==
    /\ pc = "open"
    /\ dbI = 1
    /\ attempts = 2
    /\ hit = ""
    /\ dst0["db1"] = NoDatabase
    /\ dst["db1"].version = 2

\* C30 as claimed: the restore raises the version of a database by at most
\* 1, a database that does not exist having version 0.
C30_AsClaimed ==
    runs > 0 => \A d \in DOMAIN idbs : dst[d].version <= dst0[d].version + 1

\* The number of records store x held before the restore (none when the
\* store did not exist), and the number of keys the dump records for it.
HeldBefore(x) == IF x \in StoresOf(dst0) THEN Cardinality(DOMAIN RecsOf(dst0, x)) ELSE 0
DumpKeys(x) == Cardinality(DOMAIN idbs[x[1]][x[2]])

\* Store x holds at most the records it held plus one per key of its dump.
Bounded(x) == Cardinality(DOMAIN RecsOf(dst, x)) <= HeldBefore(x) + DumpKeys(x)

\* C31: when loadAuth has returned or thrown, after any number of attempts,
\* every store of the snapshot holds at most the records it held before plus
\* one per key of its dump: an attempt that writes a store again adds no
\* record (the destination had the store with the key policy of the source,
\* or not at all).
C31_RecordsBounded ==
    Terminated =>
        \A x \in SnapshotStores :
            (x \in StoresOf(dst) /\ Compatible(x)) => Bounded(x)

\* The bound holds for every store without a key path, where each put is
\* under the dump's key, and for every store after a single attempt.
BoundedByKey ==
    Terminated =>
        \A x \in SnapshotStores :
            (x \in StoresOf(dst) /\ (dst[x[1]].stores[x[2]].keyPath = "none" \/ attempts = 1))
            => Bounded(x)

\* The retry counter is within 0..3 and counts the failed attempts; loadAuth
\* has returned only with success set, before the counter reached 3, and has
\* thrown only with the counter at 3 and success not set; the wait is only
\* after a first or second failure, with another attempt to come.
C32_State ==
    /\ retryCount \in 0..maxRetries
    /\ pc = "returned" => (success /\ retryCount < 3 /\ retryCount = attempts - 1)
    /\ pc = "thrown" => (~success /\ retryCount = 3 /\ retryCount = attempts)
    /\ pc = "wait" => (~success /\ retryCount \in 1..2 /\ retryCount = attempts /\ exc # "")
    /\ success => pc \in {"while", "returned"}

\* The counter changes only in the catch block of a failed attempt, by one;
\* success is set only by a reload that completed, the counter unchanged;
\* the loop is left exactly when success is set or the counter is at 3; the
\* wait is entered only from a catch block that leaves the counter below 3,
\* and is followed by the loop test of the next attempt.
C32_Step ==
    /\ retryCount' # retryCount =>
          (retryCount' = retryCount + 1 /\ pc = "catch" /\ exc # "" /\ ~success /\ ~success')
    /\ success' # success =>
          (success' /\ pc = "reload" /\ exc' = "" /\ retryCount' = retryCount)
    /\ (pc = "while" /\ pc' # pc) =>
          /\ pc' \in {"returned", "thrown"} <=> (success \/ retryCount = 3)
          /\ pc' = "returned" <=> success
          /\ pc' = "goto" <=> (~success /\ retryCount < 3)
    /\ (pc # "wait" /\ pc' = "wait") => (pc = "catch" /\ retryCount' < 3)
    /\ (pc = "catch" /\ pc' # pc /\ retryCount' = 3) => pc' = "while"
    /\ (pc = "wait" /\ pc' # pc) => (pc' = "while" /\ LoopCondition')

\* C32: the retry counter stays within 0..3, goes up by exactly one per
\* failed attempt and never on a successful one; the loop is left exactly
\* when success is set or the counter has reached 3; and the wait between
\* attempts is taken only after a failed attempt that another attempt
\* follows, never after the third failure and never after success.
C32_RetryCounter == []C32_State /\ [][C32_Step]_vars

\* The wait after the second failed attempt, the first of which had failed
\* inside the page and not in the navigation.
C32_Witness ==
    /\ pc = "wait"
    /\ retryCount = 2
    /\ ~allNavFailed
    /\ exc = "reload"

=============================================================================
